---- MODULE Spec2Model ----
(***************************************************************************)
(* Background refresh pipeline of the Social-Media-Analytics Flask app     *)
(* (src/app.py): the job tracker (profile_progress), the result cache      *)
(* (profile_results), the pipeline thread load_profile_data with its       *)
(* 600 s watchdog timer and its 300 s cleanup thread, and the request      *)
(* handlers that start and read jobs.                                      *)
(*                                                                         *)
(* Granularity: one action per Python statement that touches shared state  *)
(* (the two module-level dicts, the database).  Threads interleave between *)
(* statements; a statement itself is atomic (CPython's GIL).               *)
(*                                                                         *)
(* Time: the clock advances in steps of Step seconds (the cleanup delay).  *)
(* Timers hold the seconds they still have to run and fire when that       *)
(* reaches 0.  Time passes only while every thread is blocked or in a call *)
(* that can take long: a stage join, the scorer (which may download its    *)
(* lexicon), a sleep.  In-memory statements and the local database calls   *)
(* take no time.  The two stage joins of a run (120 s and 90 s) together   *)
(* last less than one step, so at most one clock step passes while a run   *)
(* is blocked in them; the scorer call has no time bound in the code.      *)
(* A timer or a sleep that is over runs its next statement before the      *)
(* threads that were waiting with it go on.                                *)
(*                                                                         *)
(* Data: a comment or caption text is represented by the class the scorer  *)
(* gives it ("pos", "neu", "neg"); "" is a missing text.  Percentages are  *)
(* held in hundredths of a percent (33.33 is 3333).                        *)
(***************************************************************************)
EXTENDS Integers, Sequences, FiniteSets, TLC

VARIABLES
    profile_progress,   \* app.py:38  dict username -> {status, progress, message}
    profile_results,    \* app.py:39  dict username -> result dict
    influencer_stats,   \* the influencer_stats table: rows stored per username
    reqs,               \* /profile/load requests: handler position and response
    runs,               \* load_profile_data threads with their timer and cleanup thread
    stream,             \* the generator of one /profile/progress response
    snapshots,          \* the influencer_stats table row by row, in rowid order
    now,                \* datetime.now(pytz.UTC)
    obs                 \* what the latest call on the table did and answered

\* the table and the clock as the on-demand routes and the sweep see them;
\* the pipeline above keeps only the number of rows per username
storeVars == <<snapshots, now, obs>>

vars == <<profile_progress, profile_results, influencer_stats, reqs, runs, stream,
          storeVars>>

----------------------------------------------------------------------------
(* Bounds of the model *)

NumKeys == 2
MaxReq == 2
MaxRuns == 2
MaxPosts == 1
MaxComments == 1
MaxRows == 1

(* Program constants *)

WATCHDOG_SECONDS == 600
CLEANUP_SECONDS == 300
GROWTH_LIMIT == 5

Step == CLEANUP_SECONDS

Keys == 1..NumKeys

----------------------------------------------------------------------------
(* Python dict operations *)

Put(d, k, v) == [x \in (DOMAIN d) \cup {k} |-> IF x = k THEN v ELSE d[x]]

\* a pop that removes nothing
PopNothing(d, k) == d

\* d.clear() in place of d.pop(k, None)
PopEvery(d, k) == [x \in {} |-> 0]

Pop(d, k) == [x \in (DOMAIN d) \ {k} |-> d[x]]

EmptyDict == [x \in {} |-> 0]

Min(a, b) == IF a <= b THEN a ELSE b

----------------------------------------------------------------------------
(* Status records and their messages *)

Status(st, pr, msg) == [status |-> st, progress |-> pr, message |-> msg]

StartingStatus == Status("loading", 0, "Starting...")

TimeoutStatus == Status("error", 100, "Profile loading timed out after 10 minutes")

ErrorStatus(e) == Status("error", 100, "Error in profile loading: " \o e)

FetchTimedOut == "Profile data fetch timed out"

NoDataReturned == "No data returned from profile fetch"

KeyErrorText == "'username'"

----------------------------------------------------------------------------
(* Provider data *)

Texts == {"pos"}

PostKinds == {[url |-> TRUE, caption |-> "neu"]}

RECURSIVE SeqsUpTo(_, _)
SeqsUpTo(S, n) ==
    IF n = 0 THEN {<<>>}
    ELSE LET shorter == SeqsUpTo(S, n - 1)
         IN shorter \cup {Append(s, x) : s \in {t \in shorter : Len(t) = n - 1}, x \in S}

PostLists == SeqsUpTo(PostKinds, MaxPosts)

ProviderAnswers == SeqsUpTo(Texts, MaxComments)

NoInfo == [ok |-> FALSE, posts |-> <<>>]

Info(posts) == [ok |-> TRUE, posts |-> posts]

ZeroSentiment == [positive |-> 0, neutral |-> 0, negative |-> 0]

----------------------------------------------------------------------------
(* influencer_data.get_comments, called with posts and post_limit = 5.      *)
(* answer is what fetch_instagram_comments returned ([] too when it failed  *)
(* or raised).                                                              *)

COMMENT_POST_LIMIT == 5
CAPTION_POSTS == 3

Head_(s, n) == SubSeq(s, 1, Min(n, Len(s)))

HasUrl(p) == p.url

HasText(t) == t # ""

Captions(posts) ==
    LET first == Head_(posts, CAPTION_POSTS)
        caps == [i \in DOMAIN first |-> first[i].caption]
    IN SelectSeq(caps, HasText)

\* get_comments without the caption fallback of influencer_data.py:153-156
get_comments_nofallback(posts, answer) ==
    LET direct_urls == SelectSeq(Head_(posts, COMMENT_POST_LIMIT), HasUrl)
    IN IF direct_urls = <<>> THEN <<>> ELSE SelectSeq(answer, HasText)

get_comments(posts, answer) ==
    LET direct_urls == SelectSeq(Head_(posts, COMMENT_POST_LIMIT), HasUrl)
        comments == SelectSeq(answer, HasText)
    IN IF direct_urls = <<>> THEN <<>>
       ELSE IF comments = <<>> /\ posts # <<>> THEN Captions(posts)
       ELSE comments

----------------------------------------------------------------------------
(* ml.sentiment.analyze_sentiment: class counts turned into percentages     *)
(* rounded to two decimals (Python round: half to even).                    *)

Count(s, c) == Cardinality({i \in DOMAIN s : s[i] = c})

\* the percentage cut off after two decimals, in place of round(..., 2)
Floor2(num, den) == (num * 10000) \div den

Round2(num, den) ==
    LET scaled == num * 10000
        q == scaled \div den
        rem == scaled % den
    IN IF 2 * rem > den THEN q + 1
       ELSE IF 2 * rem < den THEN q
       ELSE IF q % 2 = 0 THEN q ELSE q + 1

analyze_sentiment(comments) ==
    IF comments = <<>> THEN ZeroSentiment
    ELSE LET scored == SelectSeq(comments, HasText)
             pos == Count(scored, "pos")
             neg == Count(scored, "neg")
             neu == Len(scored) - pos - neg
             total == pos + neu + neg
         IN IF total > 0
            THEN [positive |-> Round2(pos, total),
                  neutral |-> Round2(neu, total),
                  negative |-> Round2(neg, total)]
            ELSE ZeroSentiment

----------------------------------------------------------------------------
(* services.database.get_growth_data: the rows of a key, newest first, at   *)
(* most 5; here the length of that series.  influencer_stats holds, for     *)
(* each username, the number of rows the table has for it.                  *)

get_growth_data(k) == Min(GROWTH_LIMIT, influencer_stats[k])

----------------------------------------------------------------------------
(* Requests and runs.  A slot is free until a handler or a thread uses it   *)
(* and free again once the handler has answered, or the thread and its      *)
(* cleanup thread are both over.                                            *)

Reqs == 1..MaxReq

Runs == 1..MaxRuns

IdleReq == [username |-> 1, pc |-> "idle"]

NewReq(k) == [username |-> k, pc |-> "l329"]

FreeRun ==
    [username |-> 1, pc |-> "free", exc |-> "",
     info |-> NoInfo, comments |-> <<>>, comments_stage |-> "none",
     sentiment_data |-> ZeroSentiment,
     growth_data |-> 0,
     timer |-> "none", timer_left |-> 0,
     cleanup |-> "none", cleanup_left |-> 0,
     join_tick |-> FALSE,
     persisted |-> FALSE, published |-> FALSE]

NewRun(k) == [FreeRun EXCEPT !.username = k, !.pc = "l366"]

Pending == {q \in Reqs : reqs[q].pc # "idle"}

Free == {r \in Runs : runs[r].pc = "free"}

\* threads of load_profile_data that have started and not finished
Active == {r \in Runs : runs[r].pc \notin {"free", "ended"}}

InJoin(r) == runs[r].pc \in {"l387", "l416"}

\* the thread is blocked, in a call without a time bound, or over
Waiting(r) == InJoin(r) \/ runs[r].pc \in {"l428", "ended", "free"}

\* a timer or a sleep of run r is over
Due(r) ==
    \/ runs[r].timer = "armed" /\ runs[r].timer_left = 0
    \/ runs[r].cleanup = "sleeping" /\ runs[r].cleanup_left = 0

Timed(r) == runs[r].timer = "armed" \/ runs[r].cleanup = "sleeping"

\* no timer or sleep is over: the other threads may go on
Ready == \A r \in Runs : ~Due(r)

\* The generator of profile_progress_stream (app.py:520-533).  progress_info
\* is a reference to the dict stored under the key: while live is TRUE it is
\* the object the tracker holds, and item-assignments of the run are seen
\* through it; once the tracker's entry is replaced or popped it is the object
\* as it was left (item).  last is the item of the latest event.
NoItem == Status("none", 0, "")

IdleStream == [username |-> 1, pc |-> "idle", live |-> FALSE, item |-> NoItem, last |-> NoItem]

\* the entry of key k is replaced by a new dict or popped: a reference to the
\* old dict keeps the old dict
Detach(k) ==
    IF stream.live /\ stream.username = k /\ k \in DOMAIN profile_progress
    THEN [stream EXCEPT !.live = FALSE, !.item = profile_progress[k]]
    ELSE stream

\* A clock step with the generator in its sleep of app.py:531: the loop of
\* app.py:524-531 goes round once a second while nothing else runs, so it
\* returns when the key is not there, sends the record and breaks when the
\* status is complete or error, and otherwise has sent the record and sleeps.
StreamSlept ==
    LET k == stream.username IN
    IF stream.pc # "l531" THEN stream
    ELSE IF k \notin DOMAIN profile_progress
    THEN [stream EXCEPT !.pc = "closed", !.live = FALSE, !.item = NoItem]
    ELSE IF profile_progress[k].status \in {"complete", "error"}
    THEN [stream EXCEPT !.pc = "closed", !.live = FALSE, !.item = NoItem,
                        !.last = profile_progress[k]]
    ELSE [stream EXCEPT !.live = TRUE, !.item = NoItem, !.last = profile_progress[k]]

\* no call on the table has been made
NoCall == [op |-> "none"]

\* the generator is between two statements that take no time
StreamBusy == stream.pc \in {"l524", "l525", "l526", "l529"}

\* a call that waits for the provider or the scorer returns only when no
\* request handler and no cleanup thread is half way: these take no time
Returns == /\ Ready
           /\ Pending = {}
           /\ \A r \in Runs : runs[r].cleanup # "l487"
           /\ ~StreamBusy

FirstOf(S) == CHOOSE x \in S : \A y \in S : x <= y

Rows == LET keys == DOMAIN influencer_stats
            RECURSIVE Sum(_)
            Sum(S) == IF S = {} THEN 0
                      ELSE LET x == CHOOSE y \in S : TRUE
                           IN influencer_stats[x] + Sum(S \ {x})
        IN Sum(keys)

Init ==
    /\ snapshots = <<>>
    /\ now = 0
    /\ obs = NoCall
    /\ stream = IdleStream
    /\ profile_progress = EmptyDict
    /\ profile_results = EmptyDict
    /\ influencer_stats = [k \in Keys |-> 0]
    /\ reqs = [q \in Reqs |-> IdleReq]
    /\ runs = [r \in Runs |-> FreeRun]

----------------------------------------------------------------------------
(* start_profile_loading, app.py:323-344 *)

\* A client requests /profile/load/<k>.  A request is admitted only while a
\* thread slot is left for the run it may start, so that the bound on threads
\* never blocks a handler half way.
CallStart(k) ==
    /\ Ready
    /\ Pending # Reqs
    /\ Cardinality(Pending) < Cardinality(Free)
    /\ reqs' = [reqs EXCEPT ![FirstOf(Reqs \ Pending)] = NewReq(k)]
    /\ UNCHANGED <<profile_progress, profile_results, influencer_stats, runs, stream, storeVars>>

AlreadyLoading(k) ==
    k \in DOMAIN profile_progress /\ profile_progress[k].status = "loading"

\* app.py:329-330: answers already_loading, or goes on
StartCheckLoading(q) ==
    /\ Ready
    /\ reqs[q].pc = "l329"
    /\ IF AlreadyLoading(reqs[q].username)
       THEN reqs' = [reqs EXCEPT ![q] = IdleReq]
       ELSE reqs' = [reqs EXCEPT ![q].pc = "l333"]
    /\ UNCHANGED <<profile_progress, profile_results, influencer_stats, runs, stream, storeVars>>

\* app.py:333-334: answers already_completed, or goes on
StartCheckCompleted(q) ==
    /\ Ready
    /\ reqs[q].pc = "l333"
    /\ IF reqs[q].username \in DOMAIN profile_results
       THEN reqs' = [reqs EXCEPT ![q] = IdleReq]
       ELSE reqs' = [reqs EXCEPT ![q].pc = "l337"]
    /\ UNCHANGED <<profile_progress, profile_results, influencer_stats, runs, stream, storeVars>>

\* app.py:337
StartInitProgress(q) ==
    /\ Ready
    /\ reqs[q].pc = "l337"
    /\ profile_progress' = Put(profile_progress, reqs[q].username, StartingStatus)
    /\ reqs' = [reqs EXCEPT ![q].pc = "l340"]
    /\ stream' = Detach(reqs[q].username)
    /\ UNCHANGED <<profile_results, influencer_stats, runs, storeVars>>

\* app.py:340-344: starts the thread and answers started
StartThread(q) ==
    /\ Ready
    /\ reqs[q].pc = "l340"
    /\ runs' = [runs EXCEPT ![FirstOf(Free)] = NewRun(reqs[q].username)]
    /\ reqs' = [reqs EXCEPT ![q] = IdleReq]
    /\ UNCHANGED <<profile_progress, profile_results, influencer_stats, stream, storeVars>>

----------------------------------------------------------------------------
(* load_profile_data, app.py:346-490 *)

\* the run without the locals it no longer reads
Locals(r) ==
    [FreeRun EXCEPT !.username = runs[r].username, !.pc = runs[r].pc,
                    !.timer = runs[r].timer, !.timer_left = runs[r].timer_left,
                    !.persisted = runs[r].persisted, !.published = runs[r].published]

Raise(r, e) == [runs EXCEPT ![r] = [Locals(r) EXCEPT !.pc = "l475", !.exc = e]]

\* profile_progress[username][field] = value; KeyError when the key is gone
SetItem(r, field, value, next) ==
    LET k == runs[r].username IN
    IF k \in DOMAIN profile_progress
    THEN /\ profile_progress' = [profile_progress EXCEPT ![k][field] = value]
         /\ runs' = [runs EXCEPT ![r].pc = next]
    ELSE /\ runs' = Raise(r, KeyErrorText)
         /\ UNCHANGED profile_progress

\* app.py:366-370: start the watchdog, re-create the record if it is missing
RunBegin(r) ==
    LET k == runs[r].username IN
    /\ Ready
    /\ runs[r].pc = "l366"
    /\ runs' = [runs EXCEPT ![r].pc = "l375", ![r].timer = "armed",
                            ![r].timer_left = WATCHDOG_SECONDS]
    /\ profile_progress' = IF k \in DOMAIN profile_progress THEN profile_progress
                           ELSE Put(profile_progress, k, StartingStatus)
    /\ UNCHANGED <<profile_results, influencer_stats, reqs, stream, storeVars>>

\* app.py:375
Progress10(r) ==
    /\ Ready
    /\ runs[r].pc = "l375"
    /\ SetItem(r, "progress", 10, "l376")
    /\ UNCHANGED <<profile_results, influencer_stats, reqs, stream, storeVars>>

\* app.py:376
Message10(r) ==
    /\ Ready
    /\ runs[r].pc = "l376"
    /\ SetItem(r, "message", "Fetching profile data...", "l387")
    /\ UNCHANGED <<profile_results, influencer_stats, reqs, stream, storeVars>>

\* app.py:380-396: the fetch thread and its join(timeout=120).
\* get_influencer_data returns None on every failure (influencer_data.py:18-20, 107-109).
FetchProfile(r) ==
    /\ Returns
    /\ runs[r].pc = "l387"
    /\ \/ runs' = Raise(r, FetchTimedOut)
       \/ runs' = Raise(r, NoDataReturned)
       \/ \E posts \in PostLists :
              runs' = [runs EXCEPT ![r].pc = "l401", ![r].info = Info(posts)]
    /\ UNCHANGED <<profile_progress, profile_results, influencer_stats, reqs, stream, storeVars>>

\* app.py:401
Progress30(r) ==
    /\ Ready
    /\ runs[r].pc = "l401"
    /\ SetItem(r, "progress", 30, "l402")
    /\ UNCHANGED <<profile_results, influencer_stats, reqs, stream, storeVars>>

\* app.py:402
Message30(r) ==
    /\ Ready
    /\ runs[r].pc = "l402"
    /\ SetItem(r, "message", "Analyzing comments...", "l416")
    /\ UNCHANGED <<profile_results, influencer_stats, reqs, stream, storeVars>>

\* app.py:406-424: the comments thread and its join(timeout=90).
\* comments_stage records how the stage went: "timeout" (the thread was still
\* alive), "failed" (the provider failed or answered nothing), "ok".
CommentsResult(r, stage, comments) ==
    [runs EXCEPT ![r].pc = "l428", ![r].join_tick = FALSE,
                 ![r].comments_stage = stage, ![r].comments = comments]

FetchComments(r) ==
    LET posts == runs[r].info.posts IN
    /\ Returns
    /\ runs[r].pc = "l416"
    /\ IF posts # <<>>
       THEN \/ runs' = CommentsResult(r, "timeout", <<>>)
            \/ \E answer \in ProviderAnswers :
                   runs' = CommentsResult(r, IF answer = <<>> THEN "failed" ELSE "ok",
                                          get_comments(posts, answer))
       ELSE runs' = CommentsResult(r, "none", <<>>)
    /\ UNCHANGED <<profile_progress, profile_results, influencer_stats, reqs, stream, storeVars>>

\* the call of app.py:428 with a scorer that lets its internal error out
ScoreSentimentRaising(r) ==
    /\ Returns
    /\ runs[r].pc = "l428"
    /\ \E internal_error \in BOOLEAN :
           runs' = IF internal_error THEN Raise(r, "Error analyzing sentiment")
                   ELSE [runs EXCEPT ![r].pc = "l432",
                                     ![r].sentiment_data =
                                         analyze_sentiment(runs[r].comments)]
    /\ UNCHANGED <<profile_progress, profile_results, influencer_stats, reqs, stream, storeVars>>

\* app.py:428: the scorer, which answers all-zero on an internal error
\* (ml/sentiment.py:90-92)
ScoreSentiment(r) ==
    /\ Returns
    /\ runs[r].pc = "l428"
    /\ \E internal_error \in BOOLEAN :
           runs' = [runs EXCEPT ![r].pc = "l432",
                                ![r].sentiment_data =
                                    IF internal_error THEN ZeroSentiment
                                    ELSE analyze_sentiment(runs[r].comments)]
    /\ UNCHANGED <<profile_progress, profile_results, influencer_stats, reqs, stream, storeVars>>

\* the checkpoint of app.py:432 with another figure
Progress50(r) ==
    /\ Ready
    /\ runs[r].pc = "l432"
    /\ SetItem(r, "progress", 50, "l433")
    /\ UNCHANGED <<profile_results, influencer_stats, reqs, stream, storeVars>>

\* app.py:432
Progress60(r) ==
    /\ Ready
    /\ runs[r].pc = "l432"
    /\ SetItem(r, "progress", 60, "l433")
    /\ UNCHANGED <<profile_results, influencer_stats, reqs, stream, storeVars>>

\* app.py:433
Message60(r) ==
    /\ Ready
    /\ runs[r].pc = "l433"
    /\ SetItem(r, "message", "Calculating growth trends...", "l437")
    /\ UNCHANGED <<profile_results, influencer_stats, reqs, stream, storeVars>>

\* app.py:437
GrowthData(r) ==
    /\ Ready
    /\ runs[r].pc = "l437"
    /\ runs' = [runs EXCEPT ![r].pc = "l441",
                            ![r].growth_data = get_growth_data(runs[r].username)]
    /\ UNCHANGED <<profile_progress, profile_results, influencer_stats, reqs, stream, storeVars>>

\* app.py:441
Progress80(r) ==
    /\ Ready
    /\ runs[r].pc = "l441"
    /\ SetItem(r, "progress", 80, "l442")
    /\ UNCHANGED <<profile_results, influencer_stats, reqs, stream, storeVars>>

\* app.py:442
Message80(r) ==
    /\ Ready
    /\ runs[r].pc = "l442"
    /\ SetItem(r, "message", "Saving data...", "l455")
    /\ UNCHANGED <<profile_results, influencer_stats, reqs, stream, storeVars>>

\* app.py:455: db_save_influencer_data logs and swallows every failure
\* (influencer_data.py:205-211, services/database.py:112-115).  The table holds
\* at most MaxRows rows: an insert into a full table is one that fails.
PersistSnapshot(r) ==
    /\ Ready
    /\ runs[r].pc = "l455"
    /\ \/ /\ Rows < MaxRows
          /\ influencer_stats' = [influencer_stats EXCEPT ![runs[r].username] = @ + 1]
          /\ runs' = [runs EXCEPT ![r].pc = "l459", ![r].persisted = TRUE]
       \/ /\ UNCHANGED influencer_stats
          /\ runs' = [runs EXCEPT ![r].pc = "l459"]
    /\ UNCHANGED <<profile_progress, profile_results, reqs, stream, storeVars>>

\* app.py:459
Progress100(r) ==
    /\ Ready
    /\ runs[r].pc = "l459"
    /\ SetItem(r, "progress", 100, "l460")
    /\ UNCHANGED <<profile_results, influencer_stats, reqs, stream, storeVars>>

\* app.py:460
Message100(r) ==
    /\ Ready
    /\ runs[r].pc = "l460"
    /\ SetItem(r, "message", "Profile analysis complete!", "l462")
    /\ UNCHANGED <<profile_results, influencer_stats, reqs, stream, storeVars>>

\* the result of app.py:462-469 with the comments taken from the thread
\* object when it has them
JobResultLate(r) ==
    [posts |-> runs[r].info.posts, sentiment |-> runs[r].sentiment_data,
     growth |-> runs[r].growth_data,
     comments |-> IF obs.comment_thread[r].result # <<>>
                  THEN obs.comment_thread[r].result ELSE runs[r].comments]

\* app.py:462-469
JobResult(r) ==
    [posts |-> runs[r].info.posts, sentiment |-> runs[r].sentiment_data,
     growth |-> runs[r].growth_data, comments |-> runs[r].comments]

PublishResult(r) ==
    /\ Ready
    /\ runs[r].pc = "l462"
    /\ profile_results' = Put(profile_results, runs[r].username, JobResult(r))
    /\ runs' = [runs EXCEPT ![r] = [Locals(r) EXCEPT !.pc = "l471", !.published = TRUE]]
    /\ UNCHANGED <<profile_progress, influencer_stats, reqs, stream, storeVars>>

\* app.py:471
StatusComplete(r) ==
    /\ Ready
    /\ runs[r].pc = "l471"
    /\ SetItem(r, "status", "complete", "l483")
    /\ UNCHANGED <<profile_results, influencer_stats, reqs, stream, storeVars>>

\* app.py:475-480
HandleException(r) ==
    LET k == runs[r].username IN
    /\ Ready
    /\ runs[r].pc = "l475"
    /\ profile_progress' = IF k \in DOMAIN profile_progress
                           THEN Put(profile_progress, k, ErrorStatus(runs[r].exc))
                           ELSE profile_progress
    /\ runs' = [runs EXCEPT ![r].pc = "l483"]
    /\ stream' = Detach(k)
    /\ UNCHANGED <<profile_results, influencer_stats, reqs, storeVars>>

\* app.py:481-490: cancel the watchdog, start the cleanup thread; the thread ends
\* and its locals are gone (a cancelled timer and one that has fired both do
\* nothing any more)
RunFinally(r) ==
    /\ Ready
    /\ runs[r].pc = "l483"
    /\ runs' = [runs EXCEPT ![r] =
                   [FreeRun EXCEPT
                       !.username = runs[r].username,
                       !.pc = "ended",
                       !.timer = "cancelled",
                       !.cleanup = "sleeping",
                       !.cleanup_left = CLEANUP_SECONDS]]
    /\ UNCHANGED <<profile_progress, profile_results, influencer_stats, reqs, stream, storeVars>>

\* app.py:356-364, run by the threading.Timer of app.py:366
timeout_handler(r) ==
    LET k == runs[r].username IN
    /\ runs[r].timer = "armed"
    /\ runs[r].timer_left = 0
    /\ profile_progress' = IF k \in DOMAIN profile_progress
                           THEN Put(profile_progress, k, TimeoutStatus)
                           ELSE profile_progress
    /\ runs' = [runs EXCEPT ![r].timer = "fired"]
    /\ stream' = Detach(k)
    /\ UNCHANGED <<profile_results, influencer_stats, reqs, storeVars>>

\* the cleanup with the result removed first
CleanupResultsFirst(r) ==
    /\ runs[r].cleanup = "sleeping"
    /\ runs[r].cleanup_left = 0
    /\ profile_results' = Pop(profile_results, runs[r].username)
    /\ runs' = [runs EXCEPT ![r].cleanup = "l487"]
    /\ stream' = Detach(runs[r].username)
    /\ UNCHANGED <<profile_progress, influencer_stats, reqs, storeVars>>

\* app.py:485-486: the sleep is over
CleanupProgress(r) ==
    /\ runs[r].cleanup = "sleeping"
    /\ runs[r].cleanup_left = 0
    /\ profile_progress' = Pop(profile_progress, runs[r].username)
    /\ runs' = [runs EXCEPT ![r].cleanup = "l487"]
    /\ stream' = Detach(runs[r].username)
    /\ UNCHANGED <<profile_results, influencer_stats, reqs, storeVars>>

\* app.py:487
CleanupResults(r) ==
    /\ Ready
    /\ runs[r].cleanup = "l487"
    /\ profile_results' = Pop(profile_results, runs[r].username)
    /\ runs' = [runs EXCEPT ![r] = FreeRun]
    /\ UNCHANGED <<profile_progress, influencer_stats, reqs, stream, storeVars>>

----------------------------------------------------------------------------
(* The clock *)

Tick ==
    /\ \E r \in Runs : Timed(r)
    /\ Returns
    /\ \A r \in Runs : /\ Waiting(r) /\ runs[r].cleanup # "l487"
                       /\ ~(InJoin(r) /\ runs[r].join_tick)
    /\ runs' = [r \in Runs |->
                   [runs[r] EXCEPT
                       !.timer_left = IF runs[r].timer = "armed" THEN @ - Step ELSE @,
                       !.cleanup_left = IF runs[r].cleanup = "sleeping" THEN @ - Step ELSE @,
                       !.join_tick = @ \/ InJoin(r)]]
    /\ stream' = StreamSlept
    /\ UNCHANGED <<profile_progress, profile_results, influencer_stats, reqs, storeVars>>

----------------------------------------------------------------------------
(* Readers: check_profile_progress (app.py:535-541) and profile_result      *)
(* (app.py:492-509) answer from the state they find.                        *)

NotFound == Status("not_found", 0, "No progress found")

check_profile_progress(k) ==
    IF k \in DOMAIN profile_progress THEN profile_progress[k] ELSE NotFound

NoResult == [posts |-> <<>>, sentiment |-> ZeroSentiment, growth |-> 0, comments |-> <<>>]

profile_result(k) ==
    IF k \in DOMAIN profile_results
    THEN [code |-> 200, result |-> profile_results[k], error |-> ""]
    ELSE IF k \in DOMAIN profile_progress /\ profile_progress[k].status = "error"
    THEN [code |-> 400, result |-> NoResult, error |-> profile_progress[k].message]
    ELSE [code |-> 404, result |-> NoResult, error |-> "Profile not found or still loading"]

----------------------------------------------------------------------------

Next ==
    \/ \E k \in Keys : CallStart(k)
    \/ \E q \in Reqs : StartCheckLoading(q)
    \/ \E q \in Reqs : StartCheckCompleted(q)
    \/ \E q \in Reqs : StartInitProgress(q)
    \/ \E q \in Reqs : StartThread(q)
    \/ \E r \in Runs : RunBegin(r)
    \/ \E r \in Runs : Progress10(r)
    \/ \E r \in Runs : Message10(r)
    \/ \E r \in Runs : FetchProfile(r)
    \/ \E r \in Runs : Progress30(r)
    \/ \E r \in Runs : Message30(r)
    \/ \E r \in Runs : FetchComments(r)
    \/ \E r \in Runs : ScoreSentiment(r)
    \/ \E r \in Runs : Progress60(r)
    \/ \E r \in Runs : Message60(r)
    \/ \E r \in Runs : GrowthData(r)
    \/ \E r \in Runs : Progress80(r)
    \/ \E r \in Runs : Message80(r)
    \/ \E r \in Runs : PersistSnapshot(r)
    \/ \E r \in Runs : Progress100(r)
    \/ \E r \in Runs : Message100(r)
    \/ \E r \in Runs : PublishResult(r)
    \/ \E r \in Runs : StatusComplete(r)
    \/ \E r \in Runs : HandleException(r)
    \/ \E r \in Runs : RunFinally(r)
    \/ \E r \in Runs : timeout_handler(r)
    \/ \E r \in Runs : CleanupProgress(r)
    \/ \E r \in Runs : CleanupResults(r)
    \/ Tick

Spec == Init /\ [][Next]_vars

----------------------------------------------------------------------------
(* profile_progress_stream, app.py:520-533: the generator of one response, *)
(* run with the pipeline of one client who starts key 1, one run at a       *)
(* time.  Its sleep of one second is short against the clock step: it may   *)
(* be over at any moment.                                                   *)

\* the dict progress_info refers to
StreamRef == IF stream.live THEN profile_progress[stream.username] ELSE stream.item

\* a client opens /profile/progress/<k>, at any moment
StreamOpen(k) ==
    /\ stream.pc = "idle"
    /\ stream' = [IdleStream EXCEPT !.username = k, !.pc = "l524"]
    /\ UNCHANGED <<profile_progress, profile_results, influencer_stats, reqs, runs, storeVars>>

\* app.py:524: while username in profile_progress; the generator returns
\* when the key is not there
StreamWhile ==
    /\ stream.pc = "l524"
    /\ stream' = IF stream.username \in DOMAIN profile_progress
                 THEN [stream EXCEPT !.pc = "l525"]
                 ELSE [stream EXCEPT !.pc = "closed", !.live = FALSE, !.item = NoItem]
    /\ UNCHANGED <<profile_progress, profile_results, influencer_stats, reqs, runs, storeVars>>

\* app.py:525: progress_info = profile_progress[username]; KeyError when the
\* key is gone, which ends the response with an error
StreamRead ==
    /\ stream.pc = "l525"
    /\ stream' = IF stream.username \in DOMAIN profile_progress
                 THEN [stream EXCEPT !.pc = "l526", !.live = TRUE, !.item = NoItem]
                 ELSE [stream EXCEPT !.pc = "error", !.live = FALSE, !.item = NoItem]
    /\ UNCHANGED <<profile_progress, profile_results, influencer_stats, reqs, runs, storeVars>>

\* app.py:526-527: the event carries the dict as it is now
StreamYield ==
    /\ stream.pc = "l526"
    /\ stream' = [stream EXCEPT !.pc = "l529", !.last = StreamRef]
    /\ UNCHANGED <<profile_progress, profile_results, influencer_stats, reqs, runs, storeVars>>

\* app.py:529-531: break on the status the dict has now, or sleep
StreamBreak ==
    /\ stream.pc = "l529"
    /\ stream' = IF StreamRef.status \in {"complete", "error"}
                 THEN [stream EXCEPT !.pc = "closed", !.live = FALSE, !.item = NoItem]
                 ELSE [stream EXCEPT !.pc = "l531"]
    /\ UNCHANGED <<profile_progress, profile_results, influencer_stats, reqs, runs, storeVars>>

\* app.py:531: the sleep is over
StreamWake ==
    /\ stream.pc = "l531"
    /\ stream' = [stream EXCEPT !.pc = "l524"]
    /\ UNCHANGED <<profile_progress, profile_results, influencer_stats, reqs, runs, storeVars>>

StreamKey == 1

\* the client sends /profile/load/1 when the answer to the request before
\* has arrived and nothing is left of the run before
StartAlone ==
    /\ Pending = {}
    /\ Free = Runs
    /\ CallStart(StreamKey)

StreamNext ==
    \/ StartAlone
    \/ \E q \in Reqs : StartCheckLoading(q)
    \/ \E q \in Reqs : StartCheckCompleted(q)
    \/ \E q \in Reqs : StartInitProgress(q)
    \/ \E q \in Reqs : StartThread(q)
    \/ \E r \in Runs : RunBegin(r)
    \/ \E r \in Runs : Progress10(r)
    \/ \E r \in Runs : Message10(r)
    \/ \E r \in Runs : FetchProfile(r)
    \/ \E r \in Runs : Progress30(r)
    \/ \E r \in Runs : Message30(r)
    \/ \E r \in Runs : FetchComments(r)
    \/ \E r \in Runs : ScoreSentiment(r)
    \/ \E r \in Runs : Progress60(r)
    \/ \E r \in Runs : Message60(r)
    \/ \E r \in Runs : GrowthData(r)
    \/ \E r \in Runs : Progress80(r)
    \/ \E r \in Runs : Message80(r)
    \/ \E r \in Runs : PersistSnapshot(r)
    \/ \E r \in Runs : Progress100(r)
    \/ \E r \in Runs : Message100(r)
    \/ \E r \in Runs : PublishResult(r)
    \/ \E r \in Runs : StatusComplete(r)
    \/ \E r \in Runs : HandleException(r)
    \/ \E r \in Runs : RunFinally(r)
    \/ \E r \in Runs : timeout_handler(r)
    \/ \E r \in Runs : CleanupProgress(r)
    \/ \E r \in Runs : CleanupResults(r)
    \/ Tick
    \/ \E k \in Keys : StreamOpen(k)
    \/ StreamWhile
    \/ StreamRead
    \/ StreamYield
    \/ StreamBreak
    \/ StreamWake

StreamSpec == Init /\ [][StreamNext]_vars

----------------------------------------------------------------------------
(* The influencer_stats table (services/database.py) and the clock.  An     *)
(* instant t stands for Hour(t) hours after 2025-01-01T00:00:00 UTC, plus   *)
(* half a second when Half(t) = 1; twelve hours are 2 * FRESH_HOURS         *)
(* instants, and the order of instants is the order of time.  Timestamps    *)
(* are stored as the text isoformat() gives, held as the sequence of the    *)
(* character codes, which SQLite compares byte by byte.                     *)

FRESH_HOURS == 12
MaxHours == 24
MaxSnapshots == 3

Hour(t) == t \div 2

Half(t) == t % 2

\* the hours the clock is read at: every six hours
GridHours == {h \in 0..MaxHours : (2 * h) % FRESH_HOURS = 0}

Instants == {2 * h + f : h \in GridHours, f \in {0, 1}}

Digit(d) == 48 + d

Digits2(n) == <<Digit(n \div 10), Digit(n % 10)>>

\* "-" "T" ":" "." "+"
Dash == 45
LetterT == 84
Colon == 58
Dot == 46
Plus == 43

\* datetime.isoformat() of an aware UTC datetime: the microseconds are left
\* out when they are 0
isoformat(t) ==
    LET day == Hour(t) \div 24
        date == IF day < 0
                THEN <<Digit(2), Digit(0), Digit(2), Digit(4), Dash>> \o Digits2(12)
                         \o <<Dash>> \o Digits2(32 + day)
                ELSE <<Digit(2), Digit(0), Digit(2), Digit(5), Dash>> \o Digits2(1)
                         \o <<Dash>> \o Digits2(1 + day)
        clock == Digits2(Hour(t) % 24) \o <<Colon>> \o Digits2(0) \o <<Colon>> \o Digits2(0)
        micro == IF Half(t) = 1
                 THEN <<Dot, Digit(5), Digit(0), Digit(0), Digit(0), Digit(0), Digit(0)>>
                 ELSE <<>>
        zone == <<Plus>> \o Digits2(0) \o <<Colon>> \o Digits2(0)
    IN date \o <<LetterT>> \o clock \o micro \o zone

Number2(s, i) == 10 * (s[i] - 48) + (s[i + 1] - 48)

\* datetime.fromisoformat(): year, month, day, hour and fraction read back
fromisoformat(s) ==
    LET year == 100 * Number2(s, 1) + Number2(s, 3)
        day == IF year = 2024 THEN Number2(s, 9) - 32 ELSE Number2(s, 9) - 1
        half == IF s[20] = Dot THEN 1 ELSE 0
    IN 2 * (24 * day + Number2(s, 12)) + half

\* comparison of two TEXT values (memcmp, then the length)
RECURSIVE TextLess(_, _)
TextLess(a, b) ==
    IF b = <<>> THEN FALSE
    ELSE IF a = <<>> THEN TRUE
    ELSE IF Head(a) # Head(b) THEN Head(a) < Head(b)
    ELSE TextLess(Tail(a), Tail(b))

\* timestamp < ?, in place of the <= of app.py:105
TextBefore(a, b) == TextLess(a, b)

\* timestamp <= ?
TextAtMost(a, b) == a = b \/ TextLess(a, b)

Engagements == {0, 2, 3, 4}

Row(k, ts, eng, growth, comments, sentiment) ==
    [username |-> k, timestamp |-> ts, engagement |-> eng, growth |-> growth,
     comments |-> comments, sentiment |-> sentiment]

\* the rows of a table at the positions hits, in ORDER BY timestamp DESC
Select(table, hits) ==
    LET RECURSIVE Sorted(_)
        Sorted(S) ==
            IF S = {} THEN <<>>
            ELSE LET top == CHOOSE i \in S : \A j \in S \ {i} :
                                ~TextLess(table[i].timestamp, table[j].timestamp)
                 IN <<table[top]>> \o Sorted(S \ {top})
    IN Sorted(hits)

\* app.py:73-129, in hundredths of a percent
compute_growth_percent(conn, username) ==
    LET all == Select(conn, {i \in DOMAIN conn : conn[i].username = username})
    IN IF all = <<>> THEN 0
       ELSE LET latest == all[1]
                latest_ts == fromisoformat(latest.timestamp)
                prev_ts == latest_ts - 2 * FRESH_HOURS
                older == Select(conn, {i \in DOMAIN conn :
                                   /\ conn[i].username = username
                                   /\ TextAtMost(conn[i].timestamp, isoformat(prev_ts))})
            IN IF older = <<>> /\ Len(all) < 2 THEN 0
               ELSE LET prev == IF older # <<>> THEN older[1] ELSE all[2]
                    IN IF prev.engagement = 0 THEN 0
                       ELSE ((latest.engagement - prev.engagement) * 10000)
                                \div prev.engagement

\* The tables the growth is computed on: up to MaxSnapshots rows saved at
\* instants of the grid, no two of one username at the same instant, in
\* the order they were saved.
Slots == Keys \X Instants

RECURSIVE InOrder(_)
InOrder(S) ==
    IF S = {} THEN <<>>
    ELSE LET first == CHOOSE x \in S : \A y \in S :
                          x[2] < y[2] \/ (x[2] = y[2] /\ x[1] <= y[1])
         IN <<first>> \o InOrder(S \ {first})

GrowthInit ==
    /\ \E S \in {T \in SUBSET Slots : Cardinality(T) <= MaxSnapshots} :
         \E eng \in [S -> Engagements] :
             snapshots = [i \in 1..Cardinality(S) |->
                             LET x == InOrder(S)[i]
                             IN Row(x[1], isoformat(x[2]), eng[x], 0, <<>>, ZeroSentiment)]
    /\ now = 2 * MaxHours + 1
    /\ obs = NoCall
    /\ stream = IdleStream
    /\ profile_progress = EmptyDict
    /\ profile_results = EmptyDict
    /\ influencer_stats = [k \in Keys |-> 0]
    /\ reqs = [q \in Reqs |-> IdleReq]
    /\ runs = [r \in Runs |-> FreeRun]

CallGrowthPercent(k) ==
    /\ obs' = [op |-> "compute_growth_percent", username |-> k,
               growth |-> compute_growth_percent(snapshots, k)]
    /\ UNCHANGED <<profile_progress, profile_results, influencer_stats, reqs, runs,
                   stream, snapshots, now>>

GrowthNext == \E k \in Keys : CallGrowthPercent(k)

GrowthSpec == GrowthInit /\ [][GrowthNext]_vars

----------------------------------------------------------------------------
(* The routes and the scheduled job that read and write the table.  A       *)
(* handler is one action; the clock may move on by half a second between    *)
(* its two calls of save_influencer_data.                                   *)

MaxStored == 4
MaxCallHours == 12

\* what the provider answers for a profile: nothing, or the profile with its
\* posts and the engagement computed from them
ProviderData ==
    {[info |-> NoInfo, eng |-> 0]}
        \cup {[info |-> Info(posts), eng |-> e] : posts \in PostLists \ {<<>>}, e \in {2, 3}}

\* the provider has no comments for the posts: get_comments falls back on
\* the captions
NoAnswer == <<>>

\* the instants the routes are called at: every twelve hours, and half a
\* second later
CallInstants == {t \in Instants : Hour(t) % FRESH_HOURS = 0 /\ Hour(t) <= MaxCallHours}

\* database.py:88-115 with the UNIQUE(username, timestamp) of database.py:55
\* ignored: the row is added whatever the table holds
save_append(table, t, k, eng, growth, comments, sentiment) ==
    Append(table, Row(k, isoformat(t), eng, growth, comments, sentiment))

\* database.py:88-115: INSERT OR REPLACE deletes the row that has the same
\* (username, timestamp) and adds the new one with a new rowid; no comments
\* and no sentiment are stored as NULL and read back as [] and all-zero
save_influencer_data(table, t, k, eng, growth, comments, sentiment) ==
    LET ts == isoformat(t)
        Other(row) == ~(row.username = k /\ row.timestamp = ts)
    IN Append(SelectSeq(table, Other), Row(k, ts, eng, growth, comments, sentiment))

\* fetchone() of SELECT ... ORDER BY timestamp DESC LIMIT 1: <<>> is None
LatestRow(table, k) ==
    Head_(Select(table, {i \in DOMAIN table : table[i].username = k}), 1)

\* the comparison with <= in place of <
IsFreshInclusive(row, t) == t - fromisoformat(row.timestamp) <= 2 * FRESH_HOURS

\* app.py:597, 723, 802: datetime.now(pytz.UTC) - timestamp < timedelta(hours=12)
IsFresh(row, t) == t - fromisoformat(row.timestamp) < 2 * FRESH_HOURS

\* the clock at the second save of a handler: the same instant, or half a
\* second later
Later(t) == IF Half(t) = 0 THEN {t, t + 1} ELSE {t}

\* app.py:300-303, 739-741, 750-752: save, compute the growth, save again
SaveTwice(table, t, t2, k, eng, comments, sentiment) ==
    LET first == save_influencer_data(table, t, k, eng, 0, comments, sentiment)
        growth == compute_growth_percent(first, k)
    IN save_influencer_data(first, t2, k, eng, growth, comments, sentiment)

Call(op, k, t, fetched, refreshed, served, page) ==
    [op |-> op, username |-> k, at |-> t, fetched |-> fetched,
     refreshed |-> refreshed, served |-> served, page |-> page]

\* time passes
ClockTick ==
    /\ \E t \in CallInstants : t > now /\ now' = t
    /\ UNCHANGED <<profile_progress, profile_results, influencer_stats, reqs, runs,
                   stream, snapshots, obs>>

\* app.py:280-315
analyze_influencer(k) ==
    /\ Len(snapshots) + 2 <= MaxStored
    /\ \E data \in ProviderData, t2 \in Later(now) :
         LET comments == get_comments(data.info.posts, NoAnswer)
             sentiment == analyze_sentiment(comments)
         IN IF ~data.info.ok
            THEN /\ obs' = Call("analyze_influencer", k, now, {k}, {}, {}, "404")
                 /\ UNCHANGED <<snapshots, now>>
            ELSE /\ snapshots' = SaveTwice(snapshots, now, t2, k, data.eng, comments, sentiment)
                 /\ now' = t2
                 /\ obs' = Call("analyze_influencer", k, now, {k}, {k}, {}, "200")
    /\ UNCHANGED <<profile_progress, profile_results, influencer_stats, reqs, runs, stream>>

\* app.py:769-850
growth(k) ==
    LET row == LatestRow(snapshots, k) IN
    /\ Len(snapshots) + 1 <= MaxStored
    /\ IF row # <<>> /\ IsFresh(row[1], now)
       THEN /\ obs' = Call("growth", k, now, {}, {}, {k}, "200")
            /\ UNCHANGED <<snapshots, now>>
       ELSE \E data \in ProviderData :
              LET comments == get_comments(data.info.posts, NoAnswer)
                  sentiment == analyze_sentiment(comments)
              IN IF ~data.info.ok
                 THEN /\ obs' = Call("growth", k, now, {k}, {}, {}, "200")
                      /\ UNCHANGED <<snapshots, now>>
                 ELSE /\ snapshots' = save_influencer_data(snapshots, now, k, data.eng, 0,
                                                           comments, sentiment)
                      /\ obs' = Call("growth", k, now, {k}, {k}, {}, "200")
                      /\ UNCHANGED now
    /\ UNCHANGED <<profile_progress, profile_results, influencer_stats, reqs, runs, stream>>

\* app.py:449-455, the rows the pipeline step PersistSnapshot writes: the
\* growth is computed first, and the snapshot is saved once
PersistRow(k) ==
    /\ Len(snapshots) + 1 <= MaxStored
    /\ \E data \in ProviderData :
         LET comments == get_comments(data.info.posts, NoAnswer)
             sentiment == analyze_sentiment(comments)
             percent == compute_growth_percent(snapshots, k)
         IN /\ data.info.ok
            /\ snapshots' = save_influencer_data(snapshots, now, k, data.eng, percent,
                                                 comments, sentiment)
            /\ obs' = Call("load_profile_data", k, now, {k}, {k}, {}, "")
    /\ UNCHANGED <<profile_progress, profile_results, influencer_stats, reqs, runs,
                   stream, now>>

\* the lists of influencer_by_niche (app.py:55): the first keys
Niches == {1..n : n \in Keys}

\* app.py:701-752, the loop body for the usernames from i on; answer[k] is
\* what the provider has for k, t2 the clock from the second save on
RECURSIVE ListFrom(_, _, _, _, _, _)
ListFrom(i, niche, answer, t2, t, done) ==
    IF i \notin niche THEN done
    ELSE LET row == LatestRow(done.table, i)
         IN IF row # <<>> /\ IsFresh(row[1], t)
            THEN ListFrom(i + 1, niche, answer, t2, t,
                          [done EXCEPT !.served = @ \cup {i}])
            ELSE IF ~answer[i].info.ok
            THEN ListFrom(i + 1, niche, answer, t2, t,
                          [done EXCEPT !.fetched = @ \cup {i}])
            ELSE ListFrom(i + 1, niche, answer, t2, t2,
                          [done EXCEPT !.fetched = @ \cup {i},
                                       !.refreshed = @ \cup {i},
                                       !.table = SaveTwice(@, t, t2, i, answer[i].eng,
                                                           <<>>, ZeroSentiment)])

\* app.py:686-767
get_influencers(niche) ==
    /\ Len(snapshots) + 2 * Cardinality(niche) <= MaxStored
    /\ \E answer \in [niche -> ProviderData], t2 \in Later(now) :
         LET done == ListFrom(1, niche, answer, t2, now,
                              [table |-> snapshots, fetched |-> {}, refreshed |-> {},
                               served |-> {}])
         IN /\ snapshots' = done.table
            /\ now' = IF done.refreshed = {} THEN now ELSE t2
            /\ obs' = Call("get_influencers", 0, now, done.fetched, done.refreshed,
                           done.served, "200")
    /\ UNCHANGED <<profile_progress, profile_results, influencer_stats, reqs, runs, stream>>

\* app.py:543-677: the page for a profile.  The growth column is a REAL, so
\* growth_data keeps its empty default and has_growth is false.
profile(k) ==
    LET row == LatestRow(snapshots, k)
        has_comments == row[1].comments # <<>>
        has_sentiment == row[1].sentiment # ZeroSentiment
        has_growth == FALSE
        page == IF k \in DOMAIN profile_results THEN "profile.html"
                ELSE IF AlreadyLoading(k) THEN "profile_loading.html"
                ELSE IF /\ row # <<>>
                        /\ IsFresh(row[1], now)
                        /\ (has_comments \/ has_sentiment \/ has_growth)
                THEN "profile.html"
                ELSE "profile_loading.html"
    IN /\ obs' = Call("profile", k, now, {}, {},
                      IF page = "profile.html" THEN {k} ELSE {}, page)
       /\ UNCHANGED <<profile_progress, profile_results, influencer_stats, reqs, runs,
                      stream, snapshots, now>>

SWEEP_HOURS == 24
SWEEP_EVERY_HOURS == 12

\* app.py:67-71: g is there only inside an application context; outside,
\* the access raises RuntimeError
get_db(context) == context

\* app.py:146-147: SELECT DISTINCT username ... WHERE timestamp > ?
recent_influencers(table, t) ==
    {table[i].username : i \in {j \in DOMAIN table :
        TextLess(isoformat(t - 2 * SWEEP_HOURS), table[j].timestamp)}}

\* app.py:150-165 for the usernames of todo, one save each
RECURSIVE process_influencers(_, _, _, _)
process_influencers(todo, answer, t, done) ==
    IF todo = {} THEN done
    ELSE LET k == CHOOSE x \in todo : \A y \in todo : x <= y
             comments == get_comments(answer[k].info.posts, NoAnswer)
             sentiment == analyze_sentiment(comments)
         IN process_influencers(todo \ {k}, answer, t,
               IF ~answer[k].info.ok
               THEN [done EXCEPT !.fetched = @ \cup {k}]
               ELSE [done EXCEPT !.fetched = @ \cup {k},
                                 !.refreshed = @ \cup {k},
                                 !.table = save_influencer_data(@, t, k, answer[k].eng, 0,
                                                                comments, sentiment)])

\* app.py:142-173: without a connection the except of line 172 ends the job
update_influencer_data(context, table, answer, t) ==
    LET nothing == [table |-> table, fetched |-> {}, refreshed |-> {}, served |-> {}]
    IN IF ~get_db(context) THEN nothing
       ELSE process_influencers(recent_influencers(table, t), answer, t, nothing)

\* app.py:175-177: the BackgroundScheduler calls the job from its own
\* thread every 12 hours; no application context is pushed there
SchedulerContext == FALSE

ScheduledUpdate ==
    /\ Half(now) = 0
    /\ Hour(now) > 0
    /\ Hour(now) % SWEEP_EVERY_HOURS = 0
    /\ \E answer \in [Keys -> ProviderData] :
         LET done == update_influencer_data(SchedulerContext, snapshots, answer, now)
         IN /\ Len(done.table) <= MaxStored
            /\ snapshots' = done.table
            /\ obs' = Call("update_influencer_data", 0, now, done.fetched, done.refreshed,
                           {}, "")
    /\ UNCHANGED <<profile_progress, profile_results, influencer_stats, reqs, runs,
                   stream, now>>

StoreNext ==
    \/ ClockTick
    \/ \E k \in Keys : analyze_influencer(k)
    \/ \E k \in Keys : growth(k)
    \/ \E k \in Keys : PersistRow(k)
    \/ \E niche \in Niches : get_influencers(niche)
    \/ \E k \in Keys : profile(k)
    \/ ScheduledUpdate

StoreSpec == Init /\ [][StoreNext]_vars

----------------------------------------------------------------------------
(* The scorer on its own (ml/sentiment.py:7-92): every list of up to        *)
(* MaxScored comments of the three classes and the empty text.              *)

MaxScored == 6

ScorerTexts == {"pos", "neu", "neg", ""}

ScorerInit ==
    /\ \E comments \in SeqsUpTo(ScorerTexts, MaxScored) :
         obs = [op |-> "comments", comments |-> comments]
    /\ snapshots = <<>>
    /\ now = 0
    /\ stream = IdleStream
    /\ profile_progress = EmptyDict
    /\ profile_results = EmptyDict
    /\ influencer_stats = [k \in Keys |-> 0]
    /\ reqs = [q \in Reqs |-> IdleReq]
    /\ runs = [r \in Runs |-> FreeRun]

CallScorer ==
    /\ obs.op = "comments"
    /\ obs' = [op |-> "analyze_sentiment", comments |-> obs.comments,
               sentiment |-> analyze_sentiment(obs.comments)]
    /\ UNCHANGED <<profile_progress, profile_results, influencer_stats, reqs, runs,
                   stream, snapshots, now>>

ScorerNext == CallScorer

ScorerSpec == ScorerInit /\ [][ScorerNext]_vars

----------------------------------------------------------------------------
(* Vocabulary of the properties *)

Terminal == {"complete", "error"}

RunsOf(k) == {r \in Active : runs[r].username = k}

\* the records the code writes as one checkpoint
Checkpoints ==
    {StartingStatus,
     Status("loading", 10, "Fetching profile data..."),
     Status("loading", 30, "Analyzing comments..."),
     Status("loading", 60, "Calculating growth trends..."),
     Status("loading", 80, "Saving data..."),
     Status("complete", 100, "Profile analysis complete!"),
     TimeoutStatus,
     ErrorStatus(FetchTimedOut), ErrorStatus(NoDataReturned), ErrorStatus(KeyErrorText)}

FetchFailures == {FetchTimedOut, NoDataReturned}

----------------------------------------------------------------------------
\* C1: two start calls for one key never both pass the checks of lines 329-334:
\* one of them is answered started and launches the run, the other is answered
\* already_loading.  Stated as mutual exclusion of the insert-and-launch part
\* (lines 337-344).
C1_OneStarted ==
    \A q1, q2 \in Reqs :
        (q1 # q2 /\ reqs[q1].username = reqs[q2].username
            /\ reqs[q1].pc \in {"l337", "l340"})
        => reqs[q2].pc \notin {"l337", "l340"}

\* C2: at most one thread of load_profile_data is active per key.
C2_AtMostOneActive == \A k \in Keys : Cardinality(RunsOf(k)) <= 1

\* C3: a record whose status is complete or error keeps that status for as long
\* as the record exists.
C3_TerminalPersists ==
    [][\A k \in DOMAIN profile_progress :
          (profile_progress[k].status \in Terminal /\ k \in DOMAIN profile_progress')
          => profile_progress'[k].status = profile_progress[k].status]_vars

\* C4: an eviction removes only the record of a run that reached its terminal
\* state: never a record whose status is loading, and never a result while the
\* status of its key is loading.
C4_EvictTerminalOnly ==
    [][\A k \in Keys :
          /\ (k \in DOMAIN profile_progress /\ k \notin DOMAIN profile_progress')
             => profile_progress[k].status \in Terminal
          /\ (k \in DOMAIN profile_results /\ k \notin DOMAIN profile_results')
             => ~AlreadyLoading(k)]_vars

\* C5: what check_profile_progress answers for a key never shows a smaller
\* progress than before while the status is loading, and shows 100 whenever
\* the status is complete or error.
C5_ProgressMonotone ==
    [][\A k \in Keys :
          /\ (check_profile_progress(k).status = "loading"
                /\ check_profile_progress(k)'.status \in {"loading"} \cup Terminal)
             => check_profile_progress(k)'.progress >= check_profile_progress(k).progress
          /\ check_profile_progress(k)'.status \in Terminal
             => check_profile_progress(k)'.progress = 100]_vars

\* C6: when the watchdog of a run expires while the status of its key is still
\* loading, the status becomes the timeout error; and from the expiry on the
\* thread of that run executes nothing but its end.
C6_WatchdogEndsRun ==
    [][\A r \in Runs :
          /\ (runs[r].timer = "armed" /\ runs'[r].timer = "fired"
                /\ AlreadyLoading(runs[r].username))
             => profile_progress'[runs[r].username] = TimeoutStatus
          /\ runs[r].timer = "fired"
             => runs'[r].pc \in {runs[r].pc, "l483", "ended", "free"}]_vars

\* C7: a run whose profile fetch failed, returned nothing or timed out goes
\* straight to its end: it has persisted and published nothing, and its
\* exception handler leaves the status error with the message of the cause.
C7_FetchFailureFatal ==
    [][\A r \in Runs :
          (runs[r].pc = "l475" /\ runs[r].exc \in FetchFailures
              /\ runs'[r].pc # "l475")
          => /\ runs'[r].pc = "l483"
             /\ ~runs'[r].persisted /\ ~runs'[r].published
             /\ runs[r].username \in DOMAIN profile_progress'
             /\ profile_progress'[runs[r].username] = ErrorStatus(runs[r].exc)]_vars

C9_PersistFailureNotFatal ==
    [][\A r \in Runs :
          (runs[r].pc \in {"l459", "l460", "l462", "l471"} /\ ~runs[r].persisted
              /\ runs'[r].pc # runs[r].pc)
          => /\ runs'[r].pc # "l475"
             /\ runs'[r].pc = "l483"
                => /\ profile_result(runs[r].username)'.code = 200
                   /\ check_profile_progress(runs[r].username)'.status = "complete"
                   /\ check_profile_progress(runs[r].username)'.progress = 100]_vars

\* C10: what check_profile_progress answers is always the record of one
\* checkpoint.
C10_ConsistentSnapshot ==
    \A k \in Keys : check_profile_progress(k) \in Checkpoints \cup {NotFound}

----------------------------------------------------------------------------
(* Vocabulary of the scenarios with one client *)

\* the non-free thread slots of key k: running threads and cleanup threads
SlotsOf(k) == {r \in Runs : runs[r].pc # "free" /\ runs[r].username = k}

\* the handlers of start_profile_loading that are at work for key k
PendingOf(k) == {q \in Pending : reqs[q].username = k}

\* C11: for a key that nothing else is working on (no other handler, no thread
\* left of an earlier start): the start that answers started leaves the status
\* loading; whenever the status is complete, profile_result answers 200 with the
\* result; and when the cleanup of the run has run (300 s after the thread
\* ended), check_profile_progress and profile_result both answer not found.
C11_StartCompleteEvict ==
    [][\A k \in Keys :
          /\ \A q \in Reqs :
                (reqs[q].pc = "l340" /\ reqs'[q].pc = "idle" /\ reqs[q].username = k
                    /\ PendingOf(k) = {q} /\ SlotsOf(k) = {})
                => /\ check_profile_progress(k)' = StartingStatus
                   /\ Cardinality(SlotsOf(k)') = 1
          /\ \A r \in Runs :
                (runs[r].pc = "l471" /\ runs'[r].pc = "l483" /\ runs[r].username = k
                    /\ PendingOf(k) = {} /\ SlotsOf(k) = {r})
                => /\ check_profile_progress(k)'.status = "complete"
                   /\ profile_result(k)'.code = 200
          /\ \A r \in Runs :
                (runs[r].cleanup = "l487" /\ runs'[r].pc = "free" /\ runs[r].username = k
                    /\ PendingOf(k) = {} /\ SlotsOf(k) = {r})
                => /\ check_profile_progress(k)' = NotFound
                   /\ profile_result(k)'.code = 404]_vars

\* the run of a key nobody else works on is complete and its result is served
C11_Witness ==
    \E r \in Runs :
        /\ runs[r].pc = "ended" /\ runs[r].cleanup_left = 0
        /\ SlotsOf(runs[r].username) = {r}
        /\ PendingOf(runs[r].username) = {}
        /\ check_profile_progress(runs[r].username).status = "complete"
        /\ profile_result(runs[r].username).code = 200

\* C12: a start answers already_loading only when the status of the key is
\* loading, already_completed only when it is not loading and a result exists,
\* and both leave records and threads as they are; it inserts the record
\* {loading, 0} and launches its thread only when the status is not loading and
\* no result exists, and it launches exactly one thread.
C12_StartFrame ==
    [][\A k \in Keys : \A q \in Reqs :
          (reqs[q].pc # "idle" /\ reqs[q].username = k /\ reqs'[q] # reqs[q])
          => /\ (reqs[q].pc = "l329" /\ reqs'[q].pc = "idle")
                => /\ AlreadyLoading(k)
                   /\ UNCHANGED <<profile_progress, profile_results, runs>>
             /\ (reqs[q].pc = "l333" /\ reqs'[q].pc = "idle")
                => /\ ~AlreadyLoading(k) /\ k \in DOMAIN profile_results
                   /\ UNCHANGED <<profile_progress, profile_results, runs>>
             /\ reqs[q].pc = "l337"
                => /\ ~AlreadyLoading(k) /\ k \notin DOMAIN profile_results
                   /\ profile_progress' = Put(profile_progress, k, StartingStatus)
                   /\ UNCHANGED <<profile_results, runs>>
             /\ reqs[q].pc = "l340"
                => /\ Cardinality(SlotsOf(k)') = Cardinality(SlotsOf(k)) + 1
                   /\ UNCHANGED <<profile_progress, profile_results>>]_vars

\* what an earlier start of key k has left behind that can still write or
\* remove the records of k: a thread, an armed watchdog, a sleeping cleanup
LeftOver(k) ==
    {r \in SlotsOf(k) : runs[r].pc # "ended" \/ runs[r].timer = "armed"
                        \/ runs[r].cleanup = "sleeping"}

\* C13: when a start inserts its record for a key that has no record and no
\* result (evicted, or never used), nothing of an earlier start of the key is
\* left that could change or remove the records of the new run.
C13_FreshAfterEviction ==
    [][\A k \in Keys : \A q \in Reqs :
          (reqs[q].pc = "l337" /\ reqs'[q].pc = "l340" /\ reqs[q].username = k
              /\ k \notin DOMAIN profile_progress /\ k \notin DOMAIN profile_results)
          => LeftOver(k) = {}]_vars

\* C16: profile_result answers 200 with the stored result exactly when the
\* status of the key is complete, 400 with exactly the stored message exactly
\* when the status is error, and 404 in every other case (no record, or still
\* loading).
C16_ResultIffComplete ==
    \A k \in Keys :
        LET answer == profile_result(k)
            state == check_profile_progress(k).status
        IN /\ answer.code = 200 <=> state = "complete"
           /\ answer.code = 400 <=> state = "error"
           /\ answer.code = 400 => answer.error = profile_progress[k].message
           /\ answer.code = 404 <=> state \notin Terminal

\* C17: the response to /profile/progress never ends with an error; it ends
\* at line 529 only when its latest event carried status complete or error,
\* and then at once; it ends at line 524 only when the key is not in
\* profile_progress; and no event follows an event with status complete or
\* error.
C17_StreamEnds ==
    [][/\ stream'.pc # "error"
       /\ (stream.pc = "l529" /\ stream'.pc = "closed") => stream.last.status \in Terminal
       /\ (stream.pc = "l529" /\ stream'.pc = "l531") => stream.last.status \notin Terminal
       /\ (stream.pc = "l524" /\ stream'.pc = "closed")
              => stream.username \notin DOMAIN profile_progress
       /\ (stream.pc = "l526" /\ stream'.pc = "l529") => stream.last.status \notin Terminal
      ]_vars

----------------------------------------------------------------------------
(* Vocabulary of the growth figure: the history of a key as instants with   *)
(* their engagement.                                                        *)

History(k) ==
    {[capturedAt |-> fromisoformat(snapshots[i].timestamp),
      engagement |-> snapshots[i].engagement] :
        i \in {j \in DOMAIN snapshots : snapshots[j].username = k}}

MostRecent(H) == CHOOSE x \in H : \A y \in H : y.capturedAt <= x.capturedAt

growthPercent(H) ==
    IF Cardinality(H) < 2 THEN 0
    ELSE LET latest == MostRecent(H)
             old == {x \in H : x.capturedAt <= latest.capturedAt - 2 * FRESH_HOURS}
             prev == IF old # {} THEN MostRecent(old) ELSE MostRecent(H \ {latest})
         IN IF prev.engagement = 0 THEN 0
            ELSE ((latest.engagement - prev.engagement) * 10000) \div prev.engagement

\* C14: compute_growth_percent answers what the growth rule gives on the
\* history of the key: 0 with fewer than two snapshots; otherwise the latest
\* against the most recent snapshot at least 12 hours older, or else against
\* the one just before the latest; 0 when that one has engagement 0.
C14_GrowthIsReference ==
    obs.op = "compute_growth_percent" => obs.growth = growthPercent(History(obs.username))

\* a growth against a snapshot exactly 12 hours older than the latest, with
\* a younger snapshot in between that would give another figure
C14_Witness ==
    /\ obs.op = "compute_growth_percent"
    /\ LET H == History(obs.username)
       IN /\ Cardinality(H) = 3
          /\ \E x \in H : /\ x.capturedAt = MostRecent(H).capturedAt - 2 * FRESH_HOURS
                           /\ x.engagement = 2
          /\ MostRecent(H).engagement = 3
          /\ MostRecent(H \ {MostRecent(H)}).engagement = 4
          /\ obs.growth = 5000

----------------------------------------------------------------------------
(* Vocabulary of the freshness window *)

OnDemand == {"profile", "get_influencers", "growth"}

\* the keys a call was about
Concerned(call) ==
    IF call.op = "get_influencers" THEN call.fetched \cup call.served
    ELSE {call.username}

CapturedAt(k) ==
    {fromisoformat(snapshots[i].timestamp) :
        i \in {j \in DOMAIN snapshots : snapshots[j].username = k}}

\* the latest snapshot of k was captured less than 12 hours before t
FreshAt(k, t) == \E c \in CapturedAt(k) : t - c < 2 * FRESH_HOURS

\* the latest snapshot of k has comments or a sentiment that is not all zero
Complete(k) ==
    \E i \in DOMAIN snapshots :
        /\ snapshots[i].username = k
        /\ \A c \in CapturedAt(k) : c <= fromisoformat(snapshots[i].timestamp)
        /\ snapshots[i].comments # <<>> \/ snapshots[i].sentiment # ZeroSentiment

RefreshTriggered(call, k) ==
    k \in call.fetched \/ call.page = "profile_loading.html"

TouchedBefore(t) == {k \in Keys : \E c \in CapturedAt(k) : t - c < 2 * SWEEP_HOURS}

\* C18: a run of the scheduled job asks the provider for every key that has
\* a snapshot of the previous 24 hours, and every such key the provider has
\* data for gets one more snapshot.
C18_SweepRefreshesRecent ==
    [][(obs' # obs /\ obs'.op = "update_influencer_data")
          => /\ TouchedBefore(now) \subseteq obs'.fetched
             /\ \A k \in obs'.refreshed :
                   \E i \in DOMAIN snapshots' :
                       /\ snapshots'[i].username = k
                       /\ snapshots'[i].timestamp = isoformat(now)
      ]_vars

\* the rows of key k, in rowid order
RowsOf(table, k) ==
    LET OfUser(row) == row.username = k
    IN SelectSeq(table, OfUser)

\* C19: a call that refreshes a key adds exactly one row for it, and no call
\* changes or removes a row that is in the table.
C19_OneSnapshotPerRefresh ==
    [][/\ Len(snapshots') >= Len(snapshots)
       /\ SubSeq(snapshots', 1, Len(snapshots)) = snapshots
       /\ \A k \in Keys :
             (snapshots' # snapshots /\ k \in obs'.refreshed)
             => Len(RowsOf(snapshots', k)) = Len(RowsOf(snapshots, k)) + 1
      ]_vars

\* C20: no two rows of the table have the same username and timestamp.
C20_UniqueKeyAndInstant ==
    \A i, j \in DOMAIN snapshots :
        (snapshots[i].username = snapshots[j].username
            /\ snapshots[i].timestamp = snapshots[j].timestamp) => i = j

\* a key saved twice at one instant: analyze_influencer at a half second,
\* where both saves read the same clock, and the row of that instant is there
C20_Witness ==
    /\ obs.op = "analyze_influencer"
    /\ obs.refreshed = {obs.username}
    /\ Half(obs.at) = 1
    /\ now = obs.at
    /\ \E i \in DOMAIN snapshots :
          /\ snapshots[i].username = obs.username
          /\ snapshots[i].timestamp = isoformat(obs.at)

----------------------------------------------------------------------------
(* Vocabulary of the scorer's answer, in hundredths of a percent *)

SumOf(sentiment) == sentiment.positive + sentiment.neutral + sentiment.negative

----------------------------------------------------------------------------
(* Vocabulary of the checkpoints: a run that is alone on its key (no other  *)
(* thread, timer, cleanup or request for the key) and whose status is       *)
(* loading, at the step that ends one of its stages.                        *)

AloneLoading(r, k) ==
    /\ runs[r].username = k
    /\ SlotsOf(k) = {r}
    /\ PendingOf(k) = {}
    /\ AlreadyLoading(k)

\* run r leaves the statement at line from for the one at line to
Goes(r, from, to) == runs[r].pc = from /\ runs'[r].pc = to

ProgressSteps == {<<0, 10>>, <<10, 30>>, <<30, 60>>, <<60, 80>>, <<80, 100>>}

\* the progress at the end of the stages other than the scorer
StagesAtCheckpoints(r, k) ==
    /\ Goes(r, "l387", "l401") => profile_progress[k].progress = 10
    /\ Goes(r, "l416", "l428") => profile_progress[k].progress = 30
    /\ Goes(r, "l437", "l441") => profile_progress[k].progress = 60
    /\ Goes(r, "l455", "l459") => profile_progress[k].progress = 80
    /\ Goes(r, "l471", "l483") => profile_progress[k].progress = 100
    /\ (k \in DOMAIN profile_progress'
           /\ profile_progress'[k].progress # profile_progress[k].progress
           /\ profile_progress'[k].status = "loading")
          => <<profile_progress[k].progress, profile_progress'[k].progress>>
                 \in ProgressSteps

\* C22 as stated: a run alone on its key writes 0, 10, 30, 60, 80, 100 in
\* that order; the profile fetch runs at 10, the comments fetch at 30, the
\* scorer and the growth series at 60, the save at 80, and the status turns
\* complete at 100.
C22_CheckpointsAsNamed ==
    [][\A k \in Keys : \A r \in Runs :
          AloneLoading(r, k)
          => /\ StagesAtCheckpoints(r, k)
             /\ Goes(r, "l428", "l432") => profile_progress[k].progress = 60
      ]_vars

\* C22 as the code has it: the same, but the scorer runs at 30, before the
\* checkpoint 60 is written; only the growth series is read at 60.
C22_ScorerAtThirty ==
    [][\A k \in Keys : \A r \in Runs :
          AloneLoading(r, k)
          => /\ StagesAtCheckpoints(r, k)
             /\ Goes(r, "l428", "l432") => profile_progress[k].progress = 30
      ]_vars

\* a run alone on its key has scored its comments and the progress is 30
C22_Witness ==
    \E r \in Runs :
        /\ runs[r].pc = "l432"
        /\ AloneLoading(r, runs[r].username)
        /\ runs[r].sentiment_data # ZeroSentiment
        /\ profile_progress[runs[r].username].progress = 30

\* the rows a step has written: those of the table after it that were not
\* in the table before it
Written == {i \in DOMAIN snapshots' : \A j \in DOMAIN snapshots : snapshots[j] # snapshots'[i]}

\* the values compute_growth_percent gives for k during a step: on the rows
\* of k before it, on those after it, and on those before its last save
GrowthsDuring(k) ==
    LET before == RowsOf(snapshots, k)
        after == RowsOf(snapshots', k)
    IN {compute_growth_percent(before, k), compute_growth_percent(after, k)}
          \cup {compute_growth_percent(SubSeq(after, 1, Len(after) - 1), k) : n \in {1}}

\* C23: the growth of every row a call writes (pipeline, routes, scheduled
\* job) is a value compute_growth_percent gives for the rows of its key at
\* the time of the call; none is written with a growth put in its place.
C23_GrowthIsComputed ==
    [][\A i \in Written :
          snapshots'[i].growth \in GrowthsDuring(snapshots'[i].username)
      ]_vars

----------------------------------------------------------------------------
(* The two helper threads of load_profile_data (app.py:380-424) one by one: *)
(* the thread object keeps what its target returned as an attribute, and a  *)
(* thread that is still alive when join gives up goes on by itself.  obs    *)
(* holds the thread objects of the runs.                                    *)

\* a thread object: detached is set when its join has timed out; result is
\* the attribute the target sets (<<>> while there is none)
NoThread == [alive |-> FALSE, detached |-> FALSE, posts |-> <<>>, result |-> <<>>]

ThreadInit ==
    /\ obs = [op |-> "threads",
              fetch_thread |-> [r \in Runs |-> NoThread],
              comment_thread |-> [r \in Runs |-> NoThread]]
    /\ snapshots = <<>>
    /\ now = 0
    /\ stream = IdleStream
    /\ profile_progress = EmptyDict
    /\ profile_results = EmptyDict
    /\ influencer_stats = [k \in Keys |-> 0]
    /\ reqs = [q \in Reqs |-> IdleReq]
    /\ runs = [r \in Runs |-> FreeRun]

\* what get_influencer_data returns: None, or the profile with its posts
ProfileAnswers == {NoInfo} \cup {Info(posts) : posts \in PostLists}

\* app.py:384-396: join(timeout=120) returns; the thread is over and has
\* set its attribute, or it is still alive and TimeoutError is raised
JoinFetchThread(r) ==
    /\ Returns
    /\ runs[r].pc = "l387"
    /\ \/ /\ obs' = [obs EXCEPT !.fetch_thread[r] =
                         [NoThread EXCEPT !.alive = TRUE, !.detached = TRUE]]
          /\ runs' = Raise(r, FetchTimedOut)
       \/ \E result \in ProfileAnswers :
             /\ obs' = [obs EXCEPT !.fetch_thread[r] = [NoThread EXCEPT !.result = result]]
             /\ runs' = IF result.ok
                        THEN [runs EXCEPT ![r].pc = "l401", ![r].info = result]
                        ELSE Raise(r, NoDataReturned)
    /\ UNCHANGED <<profile_progress, profile_results, influencer_stats, reqs, stream,
                   snapshots, now>>

\* app.py:384: the target of a fetch thread left alone returns and
\* setattr(fetch_thread, 'result', ...) runs
FetchThreadReturns(r) ==
    /\ obs.fetch_thread[r].alive
    /\ \E result \in ProfileAnswers :
           obs' = [obs EXCEPT !.fetch_thread[r].alive = FALSE,
                              !.fetch_thread[r].result = result]
    /\ UNCHANGED <<profile_progress, profile_results, influencer_stats, reqs, runs,
                   stream, snapshots, now>>

\* app.py:406-424: join(timeout=90) returns; comments is the thread's
\* attribute, or [] when the thread is still alive; no thread without posts
JoinCommentThread(r) ==
    LET posts == runs[r].info.posts IN
    /\ Returns
    /\ runs[r].pc = "l416"
    /\ IF posts # <<>>
       THEN \/ /\ obs' = [obs EXCEPT !.comment_thread[r] =
                              [NoThread EXCEPT !.alive = TRUE, !.detached = TRUE,
                                               !.posts = posts]]
               /\ runs' = CommentsResult(r, "timeout", <<>>)
            \/ \E answer \in ProviderAnswers :
                  /\ obs' = [obs EXCEPT !.comment_thread[r] =
                                 [NoThread EXCEPT !.posts = posts,
                                                  !.result = get_comments(posts, answer)]]
                  /\ runs' = CommentsResult(r, IF answer = <<>> THEN "failed" ELSE "ok",
                                            get_comments(posts, answer))
       ELSE /\ runs' = CommentsResult(r, "none", <<>>)
            /\ UNCHANGED obs
    /\ UNCHANGED <<profile_progress, profile_results, influencer_stats, reqs, stream,
                   snapshots, now>>

\* app.py:414: the target of a comment thread left alone returns and
\* setattr(comment_thread, 'c_result', ...) runs
CommentThreadReturns(r) ==
    /\ obs.comment_thread[r].alive
    /\ \E answer \in ProviderAnswers :
           obs' = [obs EXCEPT !.comment_thread[r].alive = FALSE,
                              !.comment_thread[r].result =
                                  get_comments(obs.comment_thread[r].posts, answer)]
    /\ UNCHANGED <<profile_progress, profile_results, influencer_stats, reqs, runs,
                   stream, snapshots, now>>

\* POST /start_profile_load/<k> while no request and no run is under way
StartOne(k) ==
    /\ Pending = {}
    /\ Free = Runs
    /\ CallStart(k)

ThreadNext ==
    \/ \E k \in Keys : StartOne(k)
    \/ \E q \in Reqs : StartCheckLoading(q)
    \/ \E q \in Reqs : StartCheckCompleted(q)
    \/ \E q \in Reqs : StartInitProgress(q)
    \/ \E q \in Reqs : StartThread(q)
    \/ \E r \in Runs : RunBegin(r)
    \/ \E r \in Runs : Progress10(r)
    \/ \E r \in Runs : Message10(r)
    \/ \E r \in Runs : JoinFetchThread(r)
    \/ \E r \in Runs : FetchThreadReturns(r)
    \/ \E r \in Runs : Progress30(r)
    \/ \E r \in Runs : Message30(r)
    \/ \E r \in Runs : JoinCommentThread(r)
    \/ \E r \in Runs : CommentThreadReturns(r)
    \/ \E r \in Runs : ScoreSentiment(r)
    \/ \E r \in Runs : Progress60(r)
    \/ \E r \in Runs : Message60(r)
    \/ \E r \in Runs : GrowthData(r)
    \/ \E r \in Runs : Progress80(r)
    \/ \E r \in Runs : Message80(r)
    \/ \E r \in Runs : PersistSnapshot(r)
    \/ \E r \in Runs : Progress100(r)
    \/ \E r \in Runs : Message100(r)
    \/ \E r \in Runs : PublishResult(r)
    \/ \E r \in Runs : StatusComplete(r)
    \/ \E r \in Runs : HandleException(r)
    \/ \E r \in Runs : RunFinally(r)
    \/ \E r \in Runs : timeout_handler(r)
    \/ \E r \in Runs : CleanupProgress(r)
    \/ \E r \in Runs : CleanupResults(r)
    \/ Tick

ThreadSpec == ThreadInit /\ [][ThreadNext]_vars

\* a step in which a thread left alone sets its attribute
LateReturn ==
    \E r \in Runs :
        \/ /\ obs.fetch_thread[r].alive
           /\ ~obs'.fetch_thread[r].alive
           /\ obs'.fetch_thread[r].detached
        \/ /\ obs.comment_thread[r].alive
           /\ ~obs'.comment_thread[r].alive
           /\ obs'.comment_thread[r].detached

\* C24: what a call returns after its join has timed out is never used.  The
\* step in which it returns changes no status, no result, no snapshot and no
\* local of a run; a run whose profile fetch timed out has no profile data,
\* saves no snapshot and caches no result; a run whose comments fetch timed
\* out caches a result with no comments and the sentiment of no comments.
C24_LateResultDiscarded ==
    [][/\ LateReturn => UNCHANGED <<profile_progress, profile_results,
                                    influencer_stats, runs>>
       /\ \A r \in Runs :
             obs'.fetch_thread[r].detached
             => /\ runs'[r].info = NoInfo
                /\ ~runs'[r].persisted
                /\ ~runs'[r].published
       /\ \A r \in Runs :
             (Goes(r, "l462", "l471") /\ runs[r].comments_stage = "timeout")
             => /\ profile_results'[runs[r].username].comments = <<>>
                /\ profile_results'[runs[r].username].sentiment
                       \in {ZeroSentiment, analyze_sentiment(<<>>)}
      ]_vars

\* the comments thread of a run was left alone, it has returned comments
\* since, and the run is about to cache its result
C24_Witness ==
    \E r \in Runs :
        /\ runs[r].pc = "l462"
        /\ runs[r].comments_stage = "timeout"
        /\ obs.comment_thread[r].detached
        /\ ~obs.comment_thread[r].alive
        /\ obs.comment_thread[r].result # <<>>

\* the runs of k that are at the save of app.py:455
Saving(k) == {r \in Runs : runs[r].username = k /\ runs[r].pc = "l455"}

\* C25: at no moment are two threads at the save of a snapshot for the
\* same key.
C25_OneWriterPerKey == \A k \in Keys : Cardinality(Saving(k)) <= 1

----------------------------------------------------------------------------
(* get_growth_data of services/database.py on tables of up to MaxSeriesRows *)
(* rows with their followers column.                                        *)

MaxSeriesRows == 6

\* followers and engagement of a row
Stats == {[followers |-> 1, engagement |-> 3], [followers |-> 2, engagement |-> 2]}

\* the second username has one instant, the first has them all
SeriesSlots == {x \in Slots : x[1] = 1 \/ x[2] = 0}

SeriesInit ==
    /\ \E S \in {T \in SUBSET SeriesSlots : Cardinality(T) <= MaxSeriesRows} :
         \E stats \in [S -> Stats] :
             snapshots = [i \in 1..Cardinality(S) |->
                             LET x == InOrder(S)[i]
                             IN [username |-> x[1], timestamp |-> isoformat(x[2]),
                                 followers |-> stats[x].followers,
                                 engagement |-> stats[x].engagement]]
    /\ now = 2 * MaxHours + 1
    /\ obs = NoCall
    /\ stream = IdleStream
    /\ profile_progress = EmptyDict
    /\ profile_results = EmptyDict
    /\ influencer_stats = [k \in Keys |-> 0]
    /\ reqs = [q \in Reqs |-> IdleReq]
    /\ runs = [r \in Runs |-> FreeRun]

\* None; a dict that is returned is the one element of a tuple
None == <<>>

\* the SELECT of database.py:155-161 without its LIMIT
db_get_growth_data_all(table, username) ==
    LET rows == Select(table, {i \in DOMAIN table : table[i].username = username})
    IN IF rows # <<>>
       THEN <<[timestamps |-> [i \in DOMAIN rows |-> rows[i].timestamp],
               follower_growth |-> [i \in DOMAIN rows |-> rows[i].followers],
               engagement_trend |-> [i \in DOMAIN rows |-> rows[i].engagement]]>>
       ELSE None

\* database.py:149-181: SELECT followers, engagement, timestamp ... WHERE
\* username = ? ORDER BY timestamp DESC LIMIT 5; None without rows
db_get_growth_data(table, username) ==
    LET rows == Head_(Select(table, {i \in DOMAIN table : table[i].username = username}),
                      GROWTH_LIMIT)
    IN IF rows # <<>>
       THEN <<[timestamps |-> [i \in DOMAIN rows |-> rows[i].timestamp],
               follower_growth |-> [i \in DOMAIN rows |-> rows[i].followers],
               engagement_trend |-> [i \in DOMAIN rows |-> rows[i].engagement]]>>
       ELSE None

\* app.py:437: get_growth_data(username) or the three empty lists
growth_data(table, username) ==
    LET found == db_get_growth_data(table, username)
    IN IF found = None
       THEN [timestamps |-> <<>>, follower_growth |-> <<>>, engagement_trend |-> <<>>]
       ELSE found[1]

CallGrowthData(k) ==
    /\ obs' = [op |-> "get_growth_data", username |-> k,
               growth_data |-> growth_data(snapshots, k)]
    /\ UNCHANGED <<profile_progress, profile_results, influencer_stats, reqs, runs,
                   stream, snapshots, now>>

SeriesNext == \E k \in Keys : CallGrowthData(k)

SeriesSpec == SeriesInit /\ [][SeriesNext]_vars

\* the snapshots of k in the table
SnapshotsOf(k) == {snapshots[i] : i \in {j \in DOMAIN snapshots : snapshots[j].username = k}}

\* C26: the three lists of the growth series of k have the same length,
\* min(5, n) for the n snapshots of k; entry i of the three lists is the
\* timestamp, the followers and the engagement of one snapshot of k; the
\* entries go from the most recent snapshot back, and every snapshot of k
\* that is left out is older than all of them.
C26_SeriesIsLatestFive ==
    obs.op = "get_growth_data"
    => LET k == obs.username
           series == obs.growth_data
           n == Cardinality(SnapshotsOf(k))
           At(i) == [username |-> k, timestamp |-> series.timestamps[i],
                     followers |-> series.follower_growth[i],
                     engagement |-> series.engagement_trend[i]]
           size == Len(series.timestamps)
       IN /\ size = Min(5, n)
          /\ Len(series.follower_growth) = size
          /\ Len(series.engagement_trend) = size
          /\ \A i \in 1..size : At(i) \in SnapshotsOf(k)
          /\ \A i \in 1..size : \A j \in 1..size :
                i < j => fromisoformat(series.timestamps[i])
                            > fromisoformat(series.timestamps[j])
          /\ \A row \in SnapshotsOf(k) :
                (\A i \in 1..size : At(i) # row)
                => \A i \in 1..size : fromisoformat(row.timestamp)
                                          < fromisoformat(series.timestamps[i])

\* the series of a key with more than five snapshots, whose followers differ
C26_Witness ==
    /\ obs.op = "get_growth_data"
    /\ Cardinality(SnapshotsOf(obs.username)) > 5
    /\ Len(obs.growth_data.timestamps) = 5
    /\ obs.growth_data.follower_growth[1] # obs.growth_data.follower_growth[2]

\* C27: the scorer never ends the run.  The step of a run out of the call of
\* the scorer goes on to the next statement with no exception, leaves every
\* status and every result as it is, and the sentiment is that of the run's
\* comments or, after an internal error, all-zero.
C27_ScorerNeverFails ==
    [][\A r \in Runs :
          (runs[r].pc = "l428" /\ runs'[r].pc # "l428")
          => /\ runs'[r].pc = "l432"
             /\ runs'[r].exc = ""
             /\ profile_progress' = profile_progress
             /\ profile_results' = profile_results
             /\ runs'[r].sentiment_data
                    \in {ZeroSentiment, analyze_sentiment(runs[r].comments)}
      ]_vars

\* a run whose comments have a sentiment is past the scorer with the
\* all-zero sentiment of an internal error, and its status is loading
C27_Witness ==
    \E r \in Runs :
        /\ runs[r].pc = "l432"
        /\ analyze_sentiment(runs[r].comments) # ZeroSentiment
        /\ runs[r].sentiment_data = ZeroSentiment
        /\ AlreadyLoading(runs[r].username)

C29_NoResultWhenFailed ==
    \A k \in Keys :
        (k \in DOMAIN profile_progress /\ profile_progress[k].status = "error")
        => /\ k \notin DOMAIN profile_results
           /\ profile_result(k).code # 200

\* what a dict has for k
Entry(d, k) == IF k \in DOMAIN d THEN <<d[k]>> ELSE <<>>

\* the status or the result of k changes in the step
Touched(k) ==
    \/ Entry(profile_progress', k) # Entry(profile_progress, k)
    \/ Entry(profile_results', k) # Entry(profile_results, k)

\* a request handler for k, or a thread, watchdog or cleanup of a run of k,
\* takes the step
ActsFor(k) ==
    \/ \E q \in Reqs : /\ reqs[q].pc # "idle"
                        /\ reqs[q].username = k
                        /\ reqs'[q] # reqs[q]
    \/ \E r \in Runs : /\ runs[r].pc # "free"
                        /\ runs[r].username = k
                        /\ runs'[r] # runs[r]

\* C30: a step that changes the status or the result of a key is a step of
\* a request, thread, watchdog or cleanup of that key, and it changes the
\* status and the result of no other key.
C30_KeysIndependent ==
    [][\A k \in Keys :
          Touched(k) => /\ ActsFor(k)
                        /\ \A j \in Keys \ {k} : ~Touched(j)
      ]_vars

\* the cleanup of a run of one key has removed its status while the other
\* key has a status
C30_Witness ==
    \E r \in Runs : \E j \in Keys \ {runs[r].username} :
        /\ runs[r].cleanup = "l487"
        /\ runs[r].username \notin DOMAIN profile_progress
        /\ j \in DOMAIN profile_progress

====
